---------------------------- MODULE Spec2Model ----------------------------
(***************************************************************************)
(* Model of the la_solana on-ledger program (src/src/processor.rs,         *)
(* helpers.rs, params.rs, state.rs): the debt position ("Trove") record,   *)
(* its binary codec, the fee and collateral arithmetic and the handlers    *)
(* that the dispatcher routes to.                                          *)
(*                                                                         *)
(* Numbers.  Every u64 of the program is kept as its 8 little-endian       *)
(* bytes, exactly what u64::to_le_bytes / from_le_bytes store in a record, *)
(* so a record in the state is the 75-byte buffer of the account and       *)
(* arithmetic keeps the full 64-bit width (TLC's own integers are 32-bit). *)
(*                                                                         *)
(* Builds.  `a - b`, `a * b`, Sub::sub and Add::add on u64 panic on        *)
(* overflow when the crate is built with overflow checks and wrap modulo   *)
(* 2^64 when it is built without (the release profile).  The build is not  *)
(* fixed by the sources, so overflow_checks is chosen in Init and both     *)
(* outcomes are explored.  A panic aborts the operation with no write.     *)
(***************************************************************************)
EXTENDS Integers, Sequences, FiniteSets, TLC

(***************************************************************************)
(* Little-endian byte arithmetic                                           *)
(***************************************************************************)
Zeros(n) == [i \in 1..n |-> 0]

RECURSIVE FromNat(_, _)
\* n (< 2^31) as len little-endian bytes
FromNat(n, len) ==
    IF len = 0 THEN <<>> ELSE <<n % 256>> \o FromNat(n \div 256, len - 1)

U64(n) == FromNat(n, 8)

\* x widened to len bytes (`as` conversion to a wider unsigned value)
Widen(x, len) == x \o Zeros(len - Len(x))

RECURSIVE AddBytes(_, _, _)
\* a + b + c for equally long a and b; the last byte of the result is the carry out
AddBytes(a, b, c) ==
    IF a = <<>> THEN <<c>>
    ELSE LET s == Head(a) + Head(b) + c
         IN  <<s % 256>> \o AddBytes(Tail(a), Tail(b), s \div 256)

RECURSIVE SubBytes(_, _, _)
\* a - b - c for equally long a and b; the last byte of the result is the borrow out
SubBytes(a, b, c) ==
    IF a = <<>> THEN <<c>>
    ELSE LET d == Head(a) - Head(b) - c
         IN  <<(d + 256) % 256>> \o SubBytes(Tail(a), Tail(b), IF d < 0 THEN 1 ELSE 0)

RECURSIVE MulBytes(_, _, _)
\* a * k + c for a small k (k <= 10000); the bytes after Len(a) are the carry out
MulBytes(a, k, c) ==
    IF a = <<>> THEN FromNat(c, 2)
    ELSE LET p == Head(a) * k + c
         IN  <<p % 256>> \o MulBytes(Tail(a), k, p \div 256)

RECURSIVE DivBytes(_, _, _, _)
\* floor(a / k) for a small k: long division from byte i down, r the running remainder
DivBytes(a, k, i, r) ==
    IF i = 0 THEN <<>>
    ELSE LET cur == r * 256 + a[i]
         IN  DivBytes(a, k, i - 1, cur % k) \o <<cur \div k>>

RECURSIVE LessBytes(_, _, _)
\* a < b for equally long a and b, compared from byte i down
LessBytes(a, b, i) ==
    IF i = 0 THEN FALSE
    ELSE IF a[i] # b[i] THEN a[i] < b[i]
    ELSE LessBytes(a, b, i - 1)

Less(a, b) == LessBytes(a, b, Len(a))

IsZero(a) == \A i \in 1..Len(a) : a[i] = 0

\* u64 results: v is the value modulo 2^64, overflow says the true result left 0..2^64-1
U64Add(a, b) ==
    LET s == AddBytes(a, b, 0)
    IN  [v |-> SubSeq(s, 1, 8), overflow |-> s[9] # 0]

U64Sub(a, b) ==
    LET s == SubBytes(a, b, 0)
    IN  [v |-> SubSeq(s, 1, 8), overflow |-> s[9] # 0]

U64Mul(a, k) ==
    LET s == MulBytes(a, k, 0)
    IN  [v |-> SubSeq(s, 1, 8), overflow |-> ~IsZero(SubSeq(s, 9, Len(s)))]

U64Div(a, k) == DivBytes(a, k, 8, 0)

\* billions * 10^9 + units as a u64, for constants beyond 32 bits
\* a * 1000000000 as one u64 multiplication
U64MulBillion(a) ==
    LET m1 == U64Mul(a, 1000)
        m2 == U64Mul(m1.v, 1000)
        m3 == U64Mul(m2.v, 1000)
    IN  [v |-> m3.v, overflow |-> m1.overflow \/ m2.overflow \/ m3.overflow]

\* billions * 10^9 + units as a u64, for values beyond 32 bits
Big(billions, units) == U64Add(U64MulBillion(U64(billions)).v, U64(units)).v

MaxU64 == [i \in 1..8 |-> 255]

(***************************************************************************)
(* params.rs                                                               *)
(***************************************************************************)
\* MIN_COLLATERAL: f64 = 1.10, kept as the fraction 11 / 10
MIN_COLLATERAL_NUM == 11
MIN_COLLATERAL_DEN == 10
GAS_FEE == 200
DEPOSIT_FEE == 4
TEAM_FEE == 1
SYSTEM_ACCOUNT_ADDRESS ==
    <<240, 128, 137, 181, 181, 244, 178, 11, 202, 92, 41, 67, 29, 30, 142, 34,
      115, 81, 243, 143, 175, 219, 59, 238, 174, 103, 9, 243, 15, 126, 161, 190>>

(***************************************************************************)
(* The state                                                               *)
(***************************************************************************)
VARIABLES
    overflow_checks,  \* the build: TRUE panics on u64 overflow, FALSE wraps
    trove_data,       \* the data buffer of the position account (trove_account.data)
    trove_lamports,   \* the balance of the position account (trove_account.lamports)
    lamports,         \* the balance of each identity's own account
    deposit_data,     \* the data buffer of the pool deposit account (deposit_account.data)
    deposit_lamports, \* the balance of the pool deposit account (deposit_account.lamports)
    moves,            \* successful collateral changes so far (bounds the model)
    marked,           \* history: a ReceiveTrove succeeded after the last successful Borrow
    last              \* the operation just executed (its inputs and its result), or Idle

vars == <<overflow_checks, trove_data, trove_lamports, lamports, deposit_data,
          deposit_lamports, moves, marked, last>>

(***************************************************************************)
(* helpers.rs                                                              *)
(***************************************************************************)
\* Width of the exact comparison below: 13 bytes hold every product formed
W == 8 + 5
MulW(a, k) == SubSeq(MulBytes(a, k, 0), 1, Len(a))

\* The price of one SOL that get_lamport_price hardwires (70.0)
SOL_PRICE == 70

\* Borrow amounts a for which the f64 evaluation of an exactly-critical quotient
\* (70 * l / 10^9 / a with 700 * l = 11 * 10^9 * a, so a = 7k) rounds below the
\* f64 nearest to 1.10, as IEEE-754 double arithmetic computes it, for a <= 700.
F64RoundsBelow ==
    {7 * k : k \in {7, 9, 13, 14, 18, 19, 23, 26, 28, 29, 33, 36, 38, 41, 46, 47,
                    49, 52, 56, 57, 58, 61, 63, 66, 67, 69, 71, 72, 73, 76, 79, 82,
                    87, 89, 91, 92, 94, 97, 98}}

\* get_lamport_price(lamports) / amount as f64 >= MIN_COLLATERAL, that is
\* (lamports / 10^9) * 70.0 / amount >= 1.10 in f64.  Three roundings move the
\* quotient by less than 10^-15 of itself, and a quotient that is not exactly
\* 11/10 is at least 1 / (10^8 * amount) away from it, so for amount < 10^6 the
\* outcome is that of the exact comparison unless the quotient is exactly 11/10
\* (decided by the table above).  Division by 0.0 gives +inf for a positive
\* price (accepted) and NaN for 0.0 / 0.0 (every comparison with NaN is false).
PriceRatioAtLeastMin(lamports_, amount) ==
    IF IsZero(amount) THEN ~IsZero(lamports_)
    ELSE LET lhs == MulW(MulW(Widen(lamports_, W), SOL_PRICE), MIN_COLLATERAL_DEN)
             rhs == MulW(MulW(MulW(MulW(Widen(amount, W), MIN_COLLATERAL_NUM),
                                   1000), 1000), 1000)
         IN  IF lhs = rhs
             THEN ~(\E a \in F64RoundsBelow : amount = U64(a))
             ELSE Less(rhs, lhs)

\* lamports - GAS_FEE: overflow when lamports < GAS_FEE
check_min_collateral_include_gas_fee(amount, lamports_) ==
    LET d == U64Sub(lamports_, U64(GAS_FEE))
    IN  [v |-> PriceRatioAtLeastMin(d.v, amount), overflow |-> d.overflow]

get_trove_debt_amount(amount) == U64Sub(amount, U64(GAS_FEE))

get_depositors_fee(amount) ==
    LET d == get_trove_debt_amount(amount)
        m == U64Mul(d.v, DEPOSIT_FEE)
    IN  [v |-> U64Div(m.v, 100), overflow |-> d.overflow \/ m.overflow]

get_team_fee(amount) ==
    LET d == get_trove_debt_amount(amount)
        m == U64Mul(d.v, TEAM_FEE)
    IN  [v |-> U64Div(m.v, 100), overflow |-> d.overflow \/ m.overflow]

(***************************************************************************)
(* state.rs: the Trove record and its Pack implementation                  *)
(***************************************************************************)
Trove_LEN == 75

BoolByte(b) == IF b THEN 1 ELSE 0

\* array_ref![src, 0, LEN] needs LEN bytes; a flag byte other than 0 or 1 is
\* InvalidAccountData
Trove_unpack_from_slice(src) ==
    IF Len(src) < Trove_LEN \/ src[1] \notin {0, 1} \/ src[2] \notin {0, 1}
       \/ src[3] \notin {0, 1}
    THEN [ok |-> FALSE]
    ELSE [ok |-> TRUE,
          v  |-> [is_initialized  |-> src[1] = 1,
                  is_received     |-> src[2] = 1,
                  is_liquidated   |-> src[3] = 1,
                  borrow_amount   |-> SubSeq(src, 4, 11),
                  lamports_amount |-> SubSeq(src, 12, 19),
                  team_fee        |-> SubSeq(src, 20, 27),
                  depositor_fee   |-> SubSeq(src, 28, 35),
                  amount_to_close |-> SubSeq(src, 36, 43),
                  owner           |-> SubSeq(src, 44, 75)]]

\* A pack_into_slice that writes team_fee and depositor_fee to each other's slot
Trove_pack_into_slice_swapped(t) ==
    <<BoolByte(t.is_initialized), BoolByte(t.is_received), BoolByte(t.is_liquidated)>>
    \o t.borrow_amount \o t.lamports_amount \o t.depositor_fee \o t.team_fee
    \o t.amount_to_close \o t.owner

\* mut_array_refs![dst, 1, 1, 1, 8, 8, 8, 8, 8, 32]: each field goes to the slot
\* of its own name
Trove_pack_into_slice(t) ==
    <<BoolByte(t.is_initialized), BoolByte(t.is_received), BoolByte(t.is_liquidated)>>
    \o t.borrow_amount \o t.lamports_amount \o t.team_fee \o t.depositor_fee
    \o t.amount_to_close \o t.owner

\* Pack::unpack_unchecked: the buffer must be exactly LEN bytes long
Trove_unpack_unchecked(input) ==
    IF Len(input) # Trove_LEN THEN [ok |-> FALSE] ELSE Trove_unpack_from_slice(input)

(***************************************************************************)
(* state.rs: the Deposit record and its Pack implementation                *)
(***************************************************************************)
Deposit_LEN == 129

\* array_refs![src, 1, 8, 8, 8, 8, 32, 32, 32]; a flag byte other than 0 or 1 is
\* InvalidAccountData
Deposit_unpack_from_slice(src) ==
    IF Len(src) < Deposit_LEN \/ src[1] \notin {0, 1}
    THEN [ok |-> FALSE]
    ELSE [ok |-> TRUE,
          v  |-> [is_initialized                 |-> src[1] = 1,
                  token_amount                   |-> SubSeq(src, 2, 9),
                  reward_token_amount            |-> SubSeq(src, 10, 17),
                  reward_governance_token_amount |-> SubSeq(src, 18, 25),
                  reward_coin_amount             |-> SubSeq(src, 26, 33),
                  bank                           |-> SubSeq(src, 34, 65),
                  governance_bank                |-> SubSeq(src, 66, 97),
                  owner                          |-> SubSeq(src, 98, 129)]]

\* mut_array_refs![dst, 1, 8, 8, 8, 8, 32, 32, 32]: each field goes to the slot of
\* its own name
Deposit_pack_into_slice(d) ==
    <<BoolByte(d.is_initialized)>>
    \o d.token_amount \o d.reward_token_amount \o d.reward_governance_token_amount
    \o d.reward_coin_amount \o d.bank \o d.governance_bank \o d.owner

\* Pack::unpack_unchecked: the buffer must be exactly LEN bytes long
Deposit_unpack_unchecked(input) ==
    IF Len(input) # Deposit_LEN THEN [ok |-> FALSE] ELSE Deposit_unpack_from_slice(input)

(***************************************************************************)
(* Identities and bounded inputs                                           *)
(***************************************************************************)
Alice == [i \in 1..32 |-> 1]
Bob == [i \in 1..32 |-> 2]
Keys == {SYSTEM_ACCOUNT_ADDRESS, Alice, Bob}

\* The first account of an operation: its key and whether it signed
Signers == (Keys \X {TRUE}) \cup {<<Alice, FALSE>>}

\* Successful collateral changes (top-up, withdraw, redeem) explored per position
MaxMoves == 1

\* Minimum balance of a 75-byte account that Rent::is_exempt accepts (host value)
RentExemptMinimum == U64(1412880)

\* Borrow arguments <<borrow_amount, lamports>>:
\*   300 with 4714285915 lamports is the least collateral accepted for 300
\*   (700 * 4714285715 >= 11 * 10^9 * 300), 4714285914 the greatest rejected and
\*   4714286015 is 100 above the least; 100 with 1571428772 is the least accepted
\*   for 100; 49 with 770000200 is exactly 1.10 (f64 rounds below); borrow 0
\*   divides by 0.0; 100 lamports are below GAS_FEE.
BorrowInputs ==
    {<<U64(300), Big(4, 714286015)>>, <<U64(300), Big(4, 714285915)>>,
     <<U64(300), Big(4, 714285914)>>, <<U64(100), U64(1571428772)>>,
     <<U64(49), U64(770000200)>>, <<U64(0), Big(4, 714285915)>>,
     <<U64(300), U64(100)>>}

\* 100 keeps or breaks the ratio by a little; 4714285915 leaves less than GAS_FEE
\* of 4714286015; 5000000000 exceeds every collateral above
MoveAmounts == {U64(100), Big(4, 714285915), Big(5, 0)}

\* The custodial accounts a Deposit names: <<temp_pda_token.key, temp_governance_token.key>>
Bank1 == [i \in 1..32 |-> 11]
GovBank1 == [i \in 1..32 |-> 12]
Bank2 == [i \in 1..32 |-> 21]
GovBank2 == [i \in 1..32 |-> 22]
Custody == {<<Bank1, GovBank1>>, <<Bank2, GovBank2>>}

\* Successful operations explored per pool deposit
MaxPoolOps == 3

\* Amounts of Deposit to pool and Withdraw from pool: 40 <= 100, and 2^64 - 1
\* exceeds every balance, overflows any sum and overflows amount * 10^9
PoolAmounts == {U64(40), U64(100), MaxU64}

\* Accrue pool reward arguments <<coin, governance, token>>
RewardInputs ==
    {<<U64(1), U64(2), U64(3)>>, <<U64(0), U64(0), U64(5)>>, <<MaxU64, U64(0), U64(0)>>}

(***************************************************************************)
(* processor.rs: the handlers.  Each yields the result and the state the   *)
(* operation leaves; an Err or a panic leaves the state as it was.         *)
(***************************************************************************)
Err(e) ==
    [res |-> e, data |-> trove_data, trove_lamports |-> trove_lamports,
     lamports |-> lamports, burned |-> FALSE]

\* a u64 overflow under a build with overflow checks
Panics(r) == overflow_checks /\ r.overflow

Stored(t) ==
    [res |-> "Ok", data |-> Trove_pack_into_slice(t), trove_lamports |-> trove_lamports,
     lamports |-> lamports, burned |-> FALSE]

rent_is_exempt(balance) == ~Less(balance, RentExemptMinimum)

\* A faulty variant of process_borrow: the is_initialized check is missing
process_borrow_overwriting(key, is_signer, borrow_amount, lamports_) ==
    LET c == check_min_collateral_include_gas_fee(borrow_amount, lamports_)
        u == Trove_unpack_unchecked(trove_data)
        df == get_depositors_fee(borrow_amount)
        tf == get_team_fee(borrow_amount)
        da == get_trove_debt_amount(borrow_amount)
    IN  IF Panics(c) THEN Err("Panic")
        ELSE IF ~c.v THEN Err("InvalidCollateral")
        ELSE IF ~is_signer THEN Err("MissingRequiredSignature")
        ELSE IF ~rent_is_exempt(trove_lamports) THEN Err("NotRentExempt")
        ELSE IF ~u.ok THEN Err("InvalidAccountData")
        ELSE IF Panics(df) \/ Panics(tf) \/ Panics(da) THEN Err("Panic")
        ELSE Stored([is_initialized  |-> TRUE,
                     is_received     |-> FALSE,
                     is_liquidated   |-> FALSE,
                     borrow_amount   |-> borrow_amount,
                     lamports_amount |-> lamports_,
                     team_fee        |-> tf.v,
                     depositor_fee   |-> df.v,
                     amount_to_close |-> da.v,
                     owner           |-> key])

process_borrow(key, is_signer, borrow_amount, lamports_) ==
    LET c == check_min_collateral_include_gas_fee(borrow_amount, lamports_)
        u == Trove_unpack_unchecked(trove_data)
        df == get_depositors_fee(borrow_amount)
        tf == get_team_fee(borrow_amount)
        da == get_trove_debt_amount(borrow_amount)
    IN  IF Panics(c) THEN Err("Panic")
        ELSE IF ~c.v THEN Err("InvalidCollateral")
        ELSE IF ~is_signer THEN Err("MissingRequiredSignature")
        ELSE IF ~rent_is_exempt(trove_lamports) THEN Err("NotRentExempt")
        ELSE IF ~u.ok THEN Err("InvalidAccountData")
        ELSE IF u.v.is_initialized THEN Err("AccountAlreadyInitialized")
        ELSE IF Panics(df) \/ Panics(tf) \/ Panics(da) THEN Err("Panic")
        ELSE Stored([is_initialized  |-> TRUE,
                     is_received     |-> FALSE,
                     is_liquidated   |-> FALSE,
                     borrow_amount   |-> borrow_amount,
                     lamports_amount |-> lamports_,
                     team_fee        |-> tf.v,
                     depositor_fee   |-> df.v,
                     amount_to_close |-> da.v,
                     owner           |-> key])

\* A faulty variant of process_receive_trove: the is_liquidated check is missing
process_receive_trove_unguarded(key, is_signer) ==
    LET u == Trove_unpack_unchecked(trove_data)
    IN  IF ~is_signer THEN Err("MissingRequiredSignature")
        ELSE IF key # SYSTEM_ACCOUNT_ADDRESS THEN Err("MissingRequiredSignature")
        ELSE IF ~u.ok THEN Err("InvalidAccountData")
        ELSE Stored([u.v EXCEPT !.is_received = TRUE])

process_receive_trove(key, is_signer) ==
    LET u == Trove_unpack_unchecked(trove_data)
    IN  IF ~is_signer THEN Err("MissingRequiredSignature")
        ELSE IF key # SYSTEM_ACCOUNT_ADDRESS THEN Err("MissingRequiredSignature")
        ELSE IF ~u.ok THEN Err("InvalidAccountData")
        ELSE IF u.v.is_liquidated THEN Err("TroveAlreadyLiquidated")
        ELSE Stored([u.v EXCEPT !.is_received = TRUE])

process_add_coin(key, is_signer, amount, temp_lamports) ==
    LET u == Trove_unpack_unchecked(trove_data)
        a == U64Add(u.v.lamports_amount, amount)
    IN  IF ~is_signer THEN Err("MissingRequiredSignature")
        ELSE IF ~u.ok THEN Err("InvalidAccountData")
        ELSE IF ~u.v.is_initialized THEN Err("TroveIsNotInitialized")
        ELSE IF u.v.is_liquidated THEN Err("TroveAlreadyLiquidated")
        ELSE IF key # u.v.owner THEN Err("OnlyForTroveOwner")
        ELSE IF temp_lamports # amount THEN Err("ExpectedAmountMismatch")
        ELSE IF Panics(a) THEN Err("Panic")
        ELSE Stored([u.v EXCEPT !.lamports_amount = a.v])

\* A faulty variant of process_withdraw_coin: the owner check is missing
process_withdraw_coin_by_anyone(key, is_signer, amount) ==
    LET u == Trove_unpack_unchecked(trove_data)
        d == U64Sub(u.v.lamports_amount, amount)
        c == check_min_collateral_include_gas_fee(u.v.borrow_amount, d.v)
    IN  IF ~is_signer THEN Err("MissingRequiredSignature")
        ELSE IF ~u.ok THEN Err("InvalidAccountData")
        ELSE IF ~u.v.is_initialized THEN Err("TroveIsNotInitialized")
        ELSE IF u.v.is_liquidated THEN Err("TroveAlreadyLiquidated")
        ELSE IF Panics(d) \/ Panics(c) THEN Err("Panic")
        ELSE IF ~c.v THEN Err("InvalidCollateral")
        ELSE Stored([u.v EXCEPT !.lamports_amount = d.v])

process_withdraw_coin(key, is_signer, amount) ==
    LET u == Trove_unpack_unchecked(trove_data)
        d == U64Sub(u.v.lamports_amount, amount)
        c == check_min_collateral_include_gas_fee(u.v.borrow_amount, d.v)
    IN  IF ~is_signer THEN Err("MissingRequiredSignature")
        ELSE IF ~u.ok THEN Err("InvalidAccountData")
        ELSE IF ~u.v.is_initialized THEN Err("TroveIsNotInitialized")
        ELSE IF u.v.is_liquidated THEN Err("TroveAlreadyLiquidated")
        ELSE IF key # u.v.owner THEN Err("OnlyForTroveOwner")
        ELSE IF Panics(d) \/ Panics(c) THEN Err("Panic")
        ELSE IF ~c.v THEN Err("InvalidCollateral")
        ELSE Stored([u.v EXCEPT !.lamports_amount = d.v])

process_redeem_coin(key, is_signer, amount) ==
    LET u == Trove_unpack_unchecked(trove_data)
        d == U64Sub(u.v.lamports_amount, amount)
    IN  IF ~is_signer THEN Err("MissingRequiredSignature")
        ELSE IF ~u.ok THEN Err("InvalidAccountData")
        ELSE IF ~u.v.is_initialized THEN Err("TroveIsNotInitialized")
        ELSE IF u.v.is_liquidated THEN Err("TroveAlreadyLiquidated")
        ELSE IF Panics(d) THEN Err("Panic")
        ELSE Stored([u.v EXCEPT !.lamports_amount = d.v])

\* A faulty variant of process_liquidate_trove: the is_received check is missing
process_liquidate_trove_unreceived(key, is_signer, sys_key) ==
    LET u == Trove_unpack_unchecked(trove_data)
        s == U64Add(lamports[sys_key], trove_lamports)
    IN  IF ~is_signer THEN Err("MissingRequiredSignature")
        ELSE IF sys_key # SYSTEM_ACCOUNT_ADDRESS THEN Err("MissingRequiredSignature")
        ELSE IF ~u.ok THEN Err("InvalidAccountData")
        ELSE IF u.v.is_liquidated THEN Err("TroveAlreadyLiquidated")
        ELSE IF s.overflow THEN Err("AmountOverflow")
        ELSE [res |-> "Ok", data |-> <<>>, trove_lamports |-> U64(0),
              lamports |-> [lamports EXCEPT ![sys_key] = s.v], burned |-> FALSE]

\* A faulty variant of process_liquidate_trove: the record is kept and marked
\* liquidated instead of being erased
process_liquidate_trove_flagging(key, is_signer, sys_key) ==
    LET u == Trove_unpack_unchecked(trove_data)
        s == U64Add(lamports[sys_key], trove_lamports)
    IN  IF ~is_signer THEN Err("MissingRequiredSignature")
        ELSE IF sys_key # SYSTEM_ACCOUNT_ADDRESS THEN Err("MissingRequiredSignature")
        ELSE IF ~u.ok THEN Err("InvalidAccountData")
        ELSE IF u.v.is_liquidated THEN Err("TroveAlreadyLiquidated")
        ELSE IF ~u.v.is_received THEN Err("TroveIsNotReceived")
        ELSE IF s.overflow THEN Err("AmountOverflow")
        ELSE [res |-> "Ok",
              data |-> Trove_pack_into_slice([u.v EXCEPT !.is_liquidated = TRUE]),
              trove_lamports |-> U64(0),
              lamports |-> [lamports EXCEPT ![sys_key] = s.v], burned |-> FALSE]

\* A faulty variant of process_liquidate_trove: the position account keeps its
\* balance after the sweep
process_liquidate_trove_unswept(key, is_signer, sys_key) ==
    LET u == Trove_unpack_unchecked(trove_data)
        s == U64Add(lamports[sys_key], trove_lamports)
    IN  IF ~is_signer THEN Err("MissingRequiredSignature")
        ELSE IF sys_key # SYSTEM_ACCOUNT_ADDRESS THEN Err("MissingRequiredSignature")
        ELSE IF ~u.ok THEN Err("InvalidAccountData")
        ELSE IF u.v.is_liquidated THEN Err("TroveAlreadyLiquidated")
        ELSE IF ~u.v.is_received THEN Err("TroveIsNotReceived")
        ELSE IF s.overflow THEN Err("AmountOverflow")
        ELSE [res |-> "Ok", data |-> <<>>, trove_lamports |-> trove_lamports,
              lamports |-> [lamports EXCEPT ![sys_key] = s.v], burned |-> FALSE]

\* The first account must have signed; the third account's key must be the
\* system identity and it receives the balance.  The data buffer is replaced
\* by the empty slice.
process_liquidate_trove(key, is_signer, sys_key) ==
    LET u == Trove_unpack_unchecked(trove_data)
        s == U64Add(lamports[sys_key], trove_lamports)
    IN  IF ~is_signer THEN Err("MissingRequiredSignature")
        ELSE IF sys_key # SYSTEM_ACCOUNT_ADDRESS THEN Err("MissingRequiredSignature")
        ELSE IF ~u.ok THEN Err("InvalidAccountData")
        ELSE IF u.v.is_liquidated THEN Err("TroveAlreadyLiquidated")
        ELSE IF ~u.v.is_received THEN Err("TroveIsNotReceived")
        ELSE IF s.overflow THEN Err("AmountOverflow")
        ELSE [res |-> "Ok", data |-> <<>>, trove_lamports |-> U64(0),
              lamports |-> [lamports EXCEPT ![sys_key] = s.v], burned |-> FALSE]

\* A faulty variant of process_close_trove: the position account keeps its
\* balance after the sweep
process_close_trove_unswept(key, is_signer, burn_ok) ==
    LET u == Trove_unpack_unchecked(trove_data)
        b == U64MulBillion(u.v.amount_to_close)
        s == U64Add(lamports[key], trove_lamports)
    IN  IF ~is_signer THEN Err("MissingRequiredSignature")
        ELSE IF ~u.ok THEN Err("InvalidAccountData")
        ELSE IF u.v.is_liquidated THEN Err("TroveAlreadyLiquidated")
        ELSE IF Panics(b) THEN Err("Panic")
        ELSE IF ~burn_ok THEN Err("BurnFailed")
        ELSE IF s.overflow THEN [Err("AmountOverflow") EXCEPT !.burned = TRUE]
        ELSE [res |-> "Ok", data |-> <<>>, trove_lamports |-> trove_lamports,
              lamports |-> [lamports EXCEPT ![key] = s.v], burned |-> TRUE]

\* burn_ok: whether the token program accepts the burn of amount_to_close * 10^9
\* from the signer's token account
process_close_trove(key, is_signer, burn_ok) ==
    LET u == Trove_unpack_unchecked(trove_data)
        b == U64MulBillion(u.v.amount_to_close)
        s == U64Add(lamports[key], trove_lamports)
    IN  IF ~is_signer THEN Err("MissingRequiredSignature")
        ELSE IF ~u.ok THEN Err("InvalidAccountData")
        ELSE IF u.v.is_liquidated THEN Err("TroveAlreadyLiquidated")
        ELSE IF Panics(b) THEN Err("Panic")
        ELSE IF ~burn_ok THEN Err("BurnFailed")
        ELSE IF s.overflow THEN [Err("AmountOverflow") EXCEPT !.burned = TRUE]
        ELSE [res |-> "Ok", data |-> <<>>, trove_lamports |-> U64(0),
              lamports |-> [lamports EXCEPT ![key] = s.v], burned |-> TRUE]

(***************************************************************************)
(* processor.rs: the pool deposit handlers.  Each yields the result and    *)
(* the deposit buffer the operation leaves.                                *)
(***************************************************************************)
PoolErr(e) == [res |-> e, data |-> deposit_data, burned |-> FALSE]

PoolStored(d) == [res |-> "Ok", data |-> Deposit_pack_into_slice(d), burned |-> FALSE]

\* Rent::is_exempt(lamports, data_len) with the host's default rent: 128 bytes of
\* account overhead, 3480 lamports per byte-year, 2 years
Rent_is_exempt(balance, data_len) == ~Less(balance, U64((128 + data_len) * (3480 * 2)))

\* A faulty variant of process_add_deposit_reward: any signer may accrue
process_add_deposit_reward_by_anyone(key, is_signer, coin, governance, token) ==
    LET u == Deposit_unpack_unchecked(deposit_data)
        c == U64Add(u.v.reward_coin_amount, coin)
        g == U64Add(u.v.reward_governance_token_amount, governance)
        t == U64Add(u.v.reward_token_amount, token)
    IN  IF ~is_signer THEN PoolErr("MissingRequiredSignature")
        ELSE IF ~u.ok THEN PoolErr("InvalidAccountData")
        ELSE IF Panics(c) \/ Panics(g) \/ Panics(t) THEN PoolErr("Panic")
        ELSE PoolStored([u.v EXCEPT !.reward_coin_amount = c.v,
                                    !.reward_governance_token_amount = g.v,
                                    !.reward_token_amount = t.v])

process_add_deposit_reward(key, is_signer, coin, governance, token) ==
    LET u == Deposit_unpack_unchecked(deposit_data)
        c == U64Add(u.v.reward_coin_amount, coin)
        g == U64Add(u.v.reward_governance_token_amount, governance)
        t == U64Add(u.v.reward_token_amount, token)
    IN  IF ~is_signer THEN PoolErr("MissingRequiredSignature")
        ELSE IF key # SYSTEM_ACCOUNT_ADDRESS THEN PoolErr("MissingRequiredSignature")
        ELSE IF ~u.ok THEN PoolErr("InvalidAccountData")
        ELSE IF Panics(c) \/ Panics(g) \/ Panics(t) THEN PoolErr("Panic")
        ELSE PoolStored([u.v EXCEPT !.reward_coin_amount = c.v,
                                    !.reward_governance_token_amount = g.v,
                                    !.reward_token_amount = t.v])

\* A faulty variant of process_claim_deposit_reward: reward_coin_amount is not reset
process_claim_deposit_reward_partial(key, is_signer) ==
    LET u == Deposit_unpack_unchecked(deposit_data)
    IN  IF ~is_signer THEN PoolErr("MissingRequiredSignature")
        ELSE IF key # SYSTEM_ACCOUNT_ADDRESS THEN PoolErr("MissingRequiredSignature")
        ELSE IF ~u.ok THEN PoolErr("InvalidAccountData")
        ELSE PoolStored([u.v EXCEPT !.reward_governance_token_amount = U64(0),
                                    !.reward_token_amount = U64(0)])

process_claim_deposit_reward(key, is_signer) ==
    LET u == Deposit_unpack_unchecked(deposit_data)
    IN  IF ~is_signer THEN PoolErr("MissingRequiredSignature")
        ELSE IF key # SYSTEM_ACCOUNT_ADDRESS THEN PoolErr("MissingRequiredSignature")
        ELSE IF ~u.ok THEN PoolErr("InvalidAccountData")
        ELSE PoolStored([u.v EXCEPT !.reward_governance_token_amount = U64(0),
                                    !.reward_token_amount = U64(0),
                                    !.reward_coin_amount = U64(0)])

\* A faulty variant of process_withdraw_deposit: the amount is not compared with
\* token_amount
process_withdraw_deposit_unchecked(key, is_signer, amount) ==
    LET u == Deposit_unpack_unchecked(deposit_data)
        d == U64Sub(u.v.token_amount, amount)
    IN  IF ~is_signer THEN PoolErr("MissingRequiredSignature")
        ELSE IF key # SYSTEM_ACCOUNT_ADDRESS THEN PoolErr("MissingRequiredSignature")
        ELSE IF ~u.ok THEN PoolErr("InvalidAccountData")
        ELSE IF Panics(d) THEN PoolErr("Panic")
        ELSE PoolStored([u.v EXCEPT !.token_amount = d.v])

process_withdraw_deposit(key, is_signer, amount) ==
    LET u == Deposit_unpack_unchecked(deposit_data)
        d == U64Sub(u.v.token_amount, amount)
    IN  IF ~is_signer THEN PoolErr("MissingRequiredSignature")
        ELSE IF key # SYSTEM_ACCOUNT_ADDRESS THEN PoolErr("MissingRequiredSignature")
        ELSE IF ~u.ok THEN PoolErr("InvalidAccountData")
        ELSE IF Less(u.v.token_amount, amount) THEN PoolErr("InsufficientLiquidity")
        ELSE IF Panics(d) THEN PoolErr("Panic")
        ELSE PoolStored([u.v EXCEPT !.token_amount = d.v])

\* The record process_add_deposit builds before the burn: a top-up of an
\* initialized record, or the first deposit
Deposited(d, key, amount, bank, governance_bank) ==
    IF d.is_initialized
    THEN [d EXCEPT !.token_amount = U64Add(d.token_amount, amount).v]
    ELSE [is_initialized                 |-> TRUE,
          token_amount                   |-> amount,
          reward_token_amount            |-> U64(0),
          reward_governance_token_amount |-> U64(0),
          reward_coin_amount             |-> U64(0),
          bank                           |-> bank,
          governance_bank                |-> governance_bank,
          owner                          |-> key]

\* A faulty variant of process_add_deposit: a top-up also takes over the record
process_add_deposit_overwriting(key, is_signer, amount, bank, governance_bank, burn_ok) ==
    LET u == Deposit_unpack_unchecked(deposit_data)
        a == U64Add(u.v.token_amount, amount)
        b == U64MulBillion(amount)
    IN  IF ~is_signer THEN PoolErr("MissingRequiredSignature")
        ELSE IF ~Rent_is_exempt(deposit_lamports, Len(deposit_data))
             THEN PoolErr("NotRentExempt")
        ELSE IF ~u.ok THEN PoolErr("InvalidAccountData")
        ELSE IF u.v.is_initialized /\ Panics(a) THEN PoolErr("Panic")
        ELSE IF Panics(b) THEN PoolErr("Panic")
        ELSE IF ~burn_ok THEN PoolErr("BurnFailed")
        ELSE [PoolStored([Deposited(u.v, key, amount, bank, governance_bank)
                            EXCEPT !.bank = bank,
                                   !.governance_bank = governance_bank,
                                   !.owner = key])
                EXCEPT !.burned = TRUE]

\* A faulty variant of process_add_deposit: the record is written before the burn
process_add_deposit_writing_first(key, is_signer, amount, bank, governance_bank, burn_ok) ==
    LET u == Deposit_unpack_unchecked(deposit_data)
        a == U64Add(u.v.token_amount, amount)
        b == U64MulBillion(amount)
    IN  IF ~is_signer THEN PoolErr("MissingRequiredSignature")
        ELSE IF ~Rent_is_exempt(deposit_lamports, Len(deposit_data))
             THEN PoolErr("NotRentExempt")
        ELSE IF ~u.ok THEN PoolErr("InvalidAccountData")
        ELSE IF u.v.is_initialized /\ Panics(a) THEN PoolErr("Panic")
        ELSE IF Panics(b) THEN PoolErr("Panic")
        ELSE IF ~burn_ok
             THEN [PoolStored(Deposited(u.v, key, amount, bank, governance_bank))
                     EXCEPT !.res = "BurnFailed"]
        ELSE [PoolStored(Deposited(u.v, key, amount, bank, governance_bank))
                EXCEPT !.burned = TRUE]

\* burn_ok: whether the token program accepts the burn of amount * 10^9 from the
\* signer's token account; the record is written only after the burn
process_add_deposit(key, is_signer, amount, bank, governance_bank, burn_ok) ==
    LET u == Deposit_unpack_unchecked(deposit_data)
        a == U64Add(u.v.token_amount, amount)
        b == U64MulBillion(amount)
    IN  IF ~is_signer THEN PoolErr("MissingRequiredSignature")
        ELSE IF ~Rent_is_exempt(deposit_lamports, Len(deposit_data))
             THEN PoolErr("NotRentExempt")
        ELSE IF ~u.ok THEN PoolErr("InvalidAccountData")
        ELSE IF u.v.is_initialized /\ Panics(a) THEN PoolErr("Panic")
        ELSE IF Panics(b) THEN PoolErr("Panic")
        ELSE IF ~burn_ok THEN PoolErr("BurnFailed")
        ELSE [PoolStored(Deposited(u.v, key, amount, bank, governance_bank))
                EXCEPT !.burned = TRUE]

(***************************************************************************)
(* The operations                                                          *)
(***************************************************************************)
None == <<>>

Request(op, key, is_signer) ==
    [op |-> op, key |-> key, is_signer |-> is_signer, sys_key |-> None,
     borrow_amount |-> None, lamports |-> None, amount |-> None,
     temp_lamports |-> None, burn_ok |-> FALSE]

Idle == [req |-> Request("none", None, FALSE), res |-> "Ok", burned |-> FALSE]

\* The operation req runs to completion with outcome o
Execute(req, o) ==
    /\ last = Idle
    /\ trove_data' = o.data
    /\ trove_lamports' = o.trove_lamports
    /\ lamports' = o.lamports
    /\ last' = [req |-> req, res |-> o.res, burned |-> o.burned]
    /\ marked' = IF o.res # "Ok" THEN marked
                 ELSE IF req.op = "ReceiveTrove" THEN TRUE
                 ELSE IF req.op = "Borrow" THEN FALSE
                 ELSE marked
    /\ UNCHANGED <<overflow_checks, deposit_data, deposit_lamports>>

\* Processor::process returns its ProgramResult to the host; the next
\* transaction starts from the state this one left
Return ==
    /\ last # Idle
    /\ last' = Idle
    /\ UNCHANGED <<overflow_checks, trove_data, trove_lamports, lamports, deposit_data,
                   deposit_lamports, moves, marked>>

Borrow ==
    \E sg \in Signers, bl \in BorrowInputs :
        /\ Execute([Request("Borrow", sg[1], sg[2]) EXCEPT !.borrow_amount = bl[1],
                                                           !.lamports = bl[2]],
                   process_borrow(sg[1], sg[2], bl[1], bl[2]))
        /\ UNCHANGED moves

ReceiveTrove ==
    \E sg \in Signers :
        /\ Execute(Request("ReceiveTrove", sg[1], sg[2]),
                   process_receive_trove(sg[1], sg[2]))
        /\ UNCHANGED moves

\* A collateral change counts against MaxMoves when it succeeds
Move(req, o) ==
    /\ o.res = "Ok" => moves < MaxMoves
    /\ Execute(req, o)
    /\ moves' = IF o.res = "Ok" THEN moves + 1 ELSE moves

AddCoin ==
    \E sg \in Signers, a \in MoveAmounts :
      \E t \in {a, U64(0)} :
        Move([Request("AddCoin", sg[1], sg[2]) EXCEPT !.amount = a, !.temp_lamports = t],
             process_add_coin(sg[1], sg[2], a, t))

WithdrawCoin ==
    \E sg \in Signers, a \in MoveAmounts :
        Move([Request("WithdrawCoin", sg[1], sg[2]) EXCEPT !.amount = a],
             process_withdraw_coin(sg[1], sg[2], a))

RedeemCoin ==
    \E sg \in Signers, a \in MoveAmounts :
        Move([Request("RedeemCoin", sg[1], sg[2]) EXCEPT !.amount = a],
             process_redeem_coin(sg[1], sg[2], a))

LiquidateTrove ==
    \E sg \in Signers, sys \in Keys :
        /\ Execute([Request("LiquidateTrove", sg[1], sg[2]) EXCEPT !.sys_key = sys],
                   process_liquidate_trove(sg[1], sg[2], sys))
        /\ UNCHANGED moves

CloseTrove ==
    \E sg \in Signers, ok \in BOOLEAN :
        /\ Execute([Request("CloseTrove", sg[1], sg[2]) EXCEPT !.burn_ok = ok],
                   process_close_trove(sg[1], sg[2], ok))
        /\ UNCHANGED moves

\* Balances of the identities' own accounts; Bob's cannot receive anything more
InitialLamports ==
    [k \in Keys |-> IF k = Bob THEN MaxU64
                    ELSE IF k = Alice THEN U64(0) ELSE U64(5000)]

\* A freshly allocated position account: 75 zero bytes, funded below or above
\* the rent-exempt minimum; no pool deposit account (an empty account)
Init ==
    /\ overflow_checks \in BOOLEAN
    /\ trove_data = Zeros(Trove_LEN)
    /\ trove_lamports \in {U64(1000), U64(2000000)}
    /\ lamports = InitialLamports
    /\ deposit_data = <<>>
    /\ deposit_lamports = U64(0)
    /\ moves = 0
    /\ marked = FALSE
    /\ last = Idle

Next ==
    \/ Borrow
    \/ ReceiveTrove
    \/ AddCoin
    \/ WithdrawCoin
    \/ RedeemCoin
    \/ LiquidateTrove
    \/ CloseTrove
    \/ Return

Spec == Init /\ [][Next]_vars

(***************************************************************************)
(* A second specification: the handlers started on any record the codec    *)
(* accepts, whatever its flags, for the claims that speak of records the   *)
(* program itself never writes (liquidated = true).                        *)
(***************************************************************************)
AnyRecords ==
    {[is_initialized  |-> i,
      is_received     |-> r,
      is_liquidated   |-> q,
      borrow_amount   |-> U64(300),
      lamports_amount |-> Big(4, 714286015),
      team_fee        |-> U64(1),
      depositor_fee   |-> U64(4),
      amount_to_close |-> U64(100),
      owner           |-> Alice] : i \in BOOLEAN, r \in BOOLEAN, q \in BOOLEAN}

InitAnyRecord ==
    /\ overflow_checks \in BOOLEAN
    /\ trove_data \in {Trove_pack_into_slice(t) : t \in AnyRecords}
    /\ trove_lamports = U64(2000000)
    /\ lamports = InitialLamports
    /\ deposit_data = <<>>
    /\ deposit_lamports = U64(0)
    /\ moves = 0
    /\ marked = FALSE
    /\ last = Idle

SpecAnyRecord == InitAnyRecord /\ [][Next]_vars

(***************************************************************************)
(* The pool deposit operations, and the specification of a ledger that     *)
(* holds a pool deposit account and no position account.                   *)
(***************************************************************************)
PoolRequest(op, key, is_signer) ==
    [op |-> op, key |-> key, is_signer |-> is_signer, amount |-> None,
     bank |-> None, governance_bank |-> None, burn_ok |-> FALSE,
     coin |-> None, governance |-> None, token |-> None]

\* The pool operation req runs to completion with outcome o; a success counts
\* against MaxPoolOps.  before keeps the buffer the operation started from.
ExecutePool(req, o) ==
    /\ last = Idle
    /\ o.res = "Ok" => moves < MaxPoolOps
    /\ deposit_data' = o.data
    /\ last' = [req |-> req, res |-> o.res, burned |-> o.burned, before |-> deposit_data]
    /\ moves' = IF o.res = "Ok" THEN moves + 1 ELSE moves
    /\ UNCHANGED <<overflow_checks, trove_data, trove_lamports, lamports,
                   deposit_lamports, marked>>

AddDeposit ==
    \E sg \in Signers, a \in PoolAmounts, c \in Custody, ok \in BOOLEAN :
        ExecutePool([PoolRequest("AddDeposit", sg[1], sg[2])
                        EXCEPT !.amount = a, !.bank = c[1], !.governance_bank = c[2],
                               !.burn_ok = ok],
                    process_add_deposit(sg[1], sg[2], a, c[1], c[2], ok))

WithdrawDeposit ==
    \E sg \in Signers, a \in PoolAmounts :
        ExecutePool([PoolRequest("WithdrawDeposit", sg[1], sg[2]) EXCEPT !.amount = a],
                    process_withdraw_deposit(sg[1], sg[2], a))

ClaimDepositReward ==
    \E sg \in Signers :
        ExecutePool(PoolRequest("ClaimDepositReward", sg[1], sg[2]),
                    process_claim_deposit_reward(sg[1], sg[2]))

AddDepositReward ==
    \E sg \in Signers, r \in RewardInputs :
        ExecutePool([PoolRequest("AddDepositReward", sg[1], sg[2])
                        EXCEPT !.coin = r[1], !.governance = r[2], !.token = r[3]],
                    process_add_deposit_reward(sg[1], sg[2], r[1], r[2], r[3]))

\* A freshly allocated pool deposit account: 129 zero bytes, funded below or
\* above the rent-exempt minimum; no position account (an empty account)
InitPool ==
    /\ overflow_checks \in BOOLEAN
    /\ trove_data = <<>>
    /\ trove_lamports = U64(0)
    /\ lamports = InitialLamports
    /\ deposit_data = Zeros(Deposit_LEN)
    /\ deposit_lamports \in {U64(1000), U64(2000000)}
    /\ moves = 0
    /\ marked = FALSE
    /\ last = Idle

NextPool ==
    \/ AddDeposit
    \/ WithdrawDeposit
    \/ ClaimDepositReward
    \/ AddDepositReward
    \/ Return

SpecPool == InitPool /\ [][NextPool]_vars

(***************************************************************************)
(* A third specification: the whole dispatcher, every operation of both    *)
(* ledgers, on a ledger that holds either a rent-exempt position account   *)
(* or a rent-exempt pool deposit account.  An operation is submitted with  *)
(* the account of its own kind as its record account: the position         *)
(* operations when the ledger holds the position account, the pool         *)
(* operations when it holds the pool deposit account.                      *)
(***************************************************************************)
InitLedger ==
    /\ overflow_checks \in BOOLEAN
    /\ \/ /\ trove_data = Zeros(Trove_LEN)
          /\ trove_lamports = U64(2000000)
          /\ deposit_data = <<>>
          /\ deposit_lamports = U64(0)
       \/ /\ trove_data = <<>>
          /\ trove_lamports = U64(0)
          /\ deposit_data = Zeros(Deposit_LEN)
          /\ deposit_lamports = U64(2000000)
    /\ lamports = InitialLamports
    /\ moves = 0
    /\ marked = FALSE
    /\ last = Idle

NextLedger ==
    \/ deposit_data = <<>> /\ Next
    \/ deposit_data # <<>> /\ NextPool

SpecLedger == InitLedger /\ [][NextLedger]_vars

(***************************************************************************)
(* instruction.rs: decoding of the instruction bytes, and a fourth         *)
(* specification in which every operation arrives as bytes through         *)
(* Processor::process.                                                     *)
(***************************************************************************)
InstructionErr(e) == [ok |-> FALSE, err |-> e]

\* unpack_u64 of a decoder that reads a short argument as if zero-padded
unpack_u64_padding(input) ==
    [ok   |-> TRUE,
     v    |-> SubSeq(input \o Zeros(8), 1, 8),
     rest |-> SubSeq(input, 9, Len(input))]

\* LiquityInstruction::unpack_u64: the first 8 bytes are the value
\* (u64::from_le_bytes; a u64 is kept as its little-endian bytes), the bytes
\* after them are the rest
unpack_u64(input) ==
    IF Len(input) < 8
    THEN InstructionErr("InstructionUnpackError")
    ELSE [ok   |-> TRUE,
          v    |-> SubSeq(input, 1, 8),
          rest |-> SubSeq(input, 9, Len(input))]

\* The variant a tag with one u64 argument decodes to
OneAmount(op, rest) ==
    LET a == unpack_u64(rest)
    IN  IF ~a.ok THEN a ELSE [ok |-> TRUE, v |-> [op |-> op, amount |-> a.v]]

\* LiquityInstruction::unpack
LiquityInstruction_unpack(input) ==
    IF input = <<>>
    THEN InstructionErr("InvalidInstruction")
    ELSE
      LET tag  == Head(input)
          rest == Tail(input)
      IN  CASE tag = 0 ->
                 LET borrow_amount == unpack_u64(rest)
                 IN  IF ~borrow_amount.ok THEN borrow_amount
                     ELSE LET lamports_ == unpack_u64(borrow_amount.rest)
                          IN  IF ~lamports_.ok THEN lamports_
                              ELSE [ok |-> TRUE,
                                    v  |-> [op            |-> "Borrow",
                                            borrow_amount |-> borrow_amount.v,
                                            lamports      |-> lamports_.v]]
            [] tag = 1 -> [ok |-> TRUE, v |-> [op |-> "CloseTrove"]]
            [] tag = 2 -> [ok |-> TRUE, v |-> [op |-> "LiquidateTrove"]]
            [] tag = 3 -> OneAmount("WithdrawCoin", rest)
            [] tag = 4 -> OneAmount("AddCoin", rest)
            [] tag = 5 -> OneAmount("RedeemCoin", rest)
            [] tag = 6 -> OneAmount("AddDeposit", rest)
            [] tag = 7 -> OneAmount("WithdrawDeposit", rest)
            [] tag = 8 -> [ok |-> TRUE, v |-> [op |-> "ClaimDepositReward"]]
            [] tag = 9 -> [ok |-> TRUE, v |-> [op |-> "ReceiveTrove"]]
            [] tag = 10 ->
                 LET coin == unpack_u64(rest)
                 IN  IF ~coin.ok THEN coin
                     ELSE LET governance == unpack_u64(coin.rest)
                          IN  IF ~governance.ok THEN governance
                              ELSE LET token == unpack_u64(governance.rest)
                                   IN  IF ~token.ok THEN token
                                       ELSE [ok |-> TRUE,
                                             v  |-> [op         |-> "AddDepositReward",
                                                     coin       |-> coin.v,
                                                     governance |-> governance.v,
                                                     token      |-> token.v]]
            [] OTHER -> InstructionErr("InvalidInstruction")

\* The u64 arguments of a decoded instruction, in the order of its fields
Arguments(instruction) ==
    CASE instruction.op = "Borrow" -> <<instruction.borrow_amount, instruction.lamports>>
      [] instruction.op = "AddDepositReward" ->
            <<instruction.coin, instruction.governance, instruction.token>>
      [] instruction.op \in {"WithdrawCoin", "AddCoin", "RedeemCoin", "AddDeposit",
                             "WithdrawDeposit"} -> <<instruction.amount>>
      [] OTHER -> <<>>

\* The operations of the position ledger that change collateral, and those of
\* the pool
MoveOps == {"AddCoin", "WithdrawCoin", "RedeemCoin"}
PoolOps == {"AddDeposit", "WithdrawDeposit", "ClaimDepositReward", "AddDepositReward"}

\* The match of Processor::process: the handler of operation op run on the
\* arguments args.  The accounts that come with the bytes are the signer's, the
\* privileged identity's as the receiver of a liquidation, a temporary account
\* holding exactly the top-up and the first pair of custodial accounts.
Handle(op, args, key, is_signer, burn_ok) ==
    CASE op = "Borrow" -> process_borrow(key, is_signer, args[1], args[2])
      [] op = "CloseTrove" -> process_close_trove(key, is_signer, burn_ok)
      [] op = "LiquidateTrove" ->
            process_liquidate_trove(key, is_signer, SYSTEM_ACCOUNT_ADDRESS)
      [] op = "WithdrawCoin" -> process_withdraw_coin(key, is_signer, args[1])
      [] op = "AddCoin" -> process_add_coin(key, is_signer, args[1], args[1])
      [] op = "RedeemCoin" -> process_redeem_coin(key, is_signer, args[1])
      [] op = "AddDeposit" ->
            process_add_deposit(key, is_signer, args[1], Bank1, GovBank1, burn_ok)
      [] op = "WithdrawDeposit" -> process_withdraw_deposit(key, is_signer, args[1])
      [] op = "ClaimDepositReward" -> process_claim_deposit_reward(key, is_signer)
      [] op = "ReceiveTrove" -> process_receive_trove(key, is_signer)
      [] op = "AddDepositReward" ->
            process_add_deposit_reward(key, is_signer, args[1], args[2], args[3])

\* What the host hands to Processor::process, and what the call was decoded to
WireRequest(op, args, key, is_signer, burn_ok, instruction_data) ==
    [op |-> op, args |-> args, key |-> key, is_signer |-> is_signer,
     burn_ok |-> burn_ok, instruction_data |-> instruction_data]

\* Greatest tag submitted; instruction.rs knows the tags 0..10
MaxTag == 12

\* Argument bytes: three u64 and one byte more.  300 with 4714286015 lamports
\* and 100 with 1571428772 lamports are accepted Borrow arguments.
WirePayloads ==
    {U64(300) \o Big(4, 714286015) \o U64(3) \o <<9>>,
     U64(100) \o U64(1571428772) \o U64(5) \o <<0>>}

\* How many of the argument bytes are sent: none, one byte short of one, two
\* and three u64, exactly one, two and three u64, and one byte too many
PayloadLens == {0, 7, 8, 15, 16, 23, 24, 25}

InstructionData ==
    {<<>>} \cup {<<t>> \o SubSeq(p, 1, n) :
                    t \in 0..MaxTag, p \in WirePayloads, n \in PayloadLens}

\* Processor::process: decode, then route to the handler; `?` returns the
\* decode error before any account is looked at
Process ==
    /\ last = Idle
    /\ \E sg \in Signers, instruction_data \in InstructionData, burn_ok \in BOOLEAN :
        LET instruction == LiquityInstruction_unpack(instruction_data)
        IN  IF ~instruction.ok
            THEN /\ last' = [req |-> WireRequest("none", <<>>, sg[1], sg[2], burn_ok,
                                                 instruction_data),
                             res |-> instruction.err, burned |-> FALSE]
                 /\ UNCHANGED <<overflow_checks, trove_data, trove_lamports, lamports,
                                deposit_data, deposit_lamports, moves, marked>>
            ELSE LET op   == instruction.v.op
                     args == Arguments(instruction.v)
                     req  == WireRequest(op, args, sg[1], sg[2], burn_ok,
                                         instruction_data)
                     o    == Handle(op, args, sg[1], sg[2], burn_ok)
                 IN  IF op \in PoolOps
                     THEN deposit_data # <<>> /\ ExecutePool(req, o)
                     ELSE IF op \in MoveOps
                     THEN deposit_data = <<>> /\ Move(req, o)
                     ELSE /\ deposit_data = <<>>
                          /\ Execute(req, o)
                          /\ UNCHANGED moves

NextWire ==
    \/ Process
    \/ Return

SpecWire == InitLedger /\ [][NextWire]_vars

(***************************************************************************)
(* A fifth specification: the two codecs alone, on the ledger of the third *)
(* specification.  Records are drawn from bounded sets, Pack::pack writes  *)
(* one into the account buffer of its kind and Pack::unpack_unchecked      *)
(* reads the buffer back.                                                  *)
(***************************************************************************)
\* Position records: every combination of the flags, and two values per field
\* that no other field takes
TroveRecords ==
    {[is_initialized  |-> f[1],
      is_received     |-> f[2],
      is_liquidated   |-> f[3],
      borrow_amount   |-> n[1],
      lamports_amount |-> n[2],
      team_fee        |-> n[3],
      depositor_fee   |-> n[4],
      amount_to_close |-> n[5],
      owner           |-> k] :
        f \in BOOLEAN \X BOOLEAN \X BOOLEAN,
        n \in {U64(300), MaxU64} \X {Big(4, 714286015), U64(0)} \X {U64(1), U64(258)}
              \X {U64(4), U64(65536)} \X {U64(100), Big(1, 1)},
        k \in {Alice, Bob}}

\* Pool deposit records, likewise
DepositRecords ==
    {[is_initialized                 |-> f,
      token_amount                   |-> n[1],
      reward_token_amount            |-> n[2],
      reward_governance_token_amount |-> n[3],
      reward_coin_amount             |-> n[4],
      bank                           |-> c[1],
      governance_bank                |-> c[2],
      owner                          |-> k] :
        f \in BOOLEAN,
        n \in {U64(40), MaxU64} \X {U64(3), U64(0)} \X {U64(2), U64(513)}
              \X {U64(1), Big(2, 5)},
        c \in Custody \cup {<<Bank1, Bank1>>},
        k \in {Alice, Bob}}

\* What a codec call leaves for the caller: the record given or read back
Coded(op, record, unpacked) ==
    [req |-> [op |-> op, record |-> record], res |-> "Ok", burned |-> FALSE,
     unpacked |-> unpacked]

\* Trove::pack(trove, &mut account.data); Pack::pack refuses a buffer that is not
\* LEN bytes long
Trove_pack ==
    /\ last = Idle
    /\ Len(trove_data) = Trove_LEN
    /\ \E t \in TroveRecords :
         /\ trove_data' = Trove_pack_into_slice(t)
         /\ last' = Coded("Trove::pack", t, None)
    /\ UNCHANGED <<overflow_checks, trove_lamports, lamports, deposit_data,
                   deposit_lamports, moves, marked>>

\* Trove::unpack_unchecked(&account.data) of the buffer just written
Trove_unpack ==
    /\ last.req.op = "Trove::pack"
    /\ last' = Coded("Trove::unpack", last.req.record, Trove_unpack_unchecked(trove_data))
    /\ UNCHANGED <<overflow_checks, trove_data, trove_lamports, lamports, deposit_data,
                   deposit_lamports, moves, marked>>

\* Deposit::pack(deposit, &mut account.data)
Deposit_pack ==
    /\ last = Idle
    /\ Len(deposit_data) = Deposit_LEN
    /\ \E d \in DepositRecords :
         /\ deposit_data' = Deposit_pack_into_slice(d)
         /\ last' = Coded("Deposit::pack", d, None)
    /\ UNCHANGED <<overflow_checks, trove_data, trove_lamports, lamports,
                   deposit_lamports, moves, marked>>

\* Deposit::unpack_unchecked(&account.data) of the buffer just written
Deposit_unpack ==
    /\ last.req.op = "Deposit::pack"
    /\ last' = Coded("Deposit::unpack", last.req.record,
                     Deposit_unpack_unchecked(deposit_data))
    /\ UNCHANGED <<overflow_checks, trove_data, trove_lamports, lamports, deposit_data,
                   deposit_lamports, moves, marked>>

NextCodec ==
    \/ Trove_pack
    \/ Trove_unpack
    \/ Deposit_pack
    \/ Deposit_unpack
    \/ Return

SpecCodec == InitLedger /\ [][NextCodec]_vars

(***************************************************************************)
(* Notions the properties share                                            *)
(***************************************************************************)
\* The record a load of the position account yields, before/after a step
trove == Trove_unpack_unchecked(trove_data)

\* A step that executes operation op
Runs(op) == last = Idle /\ last'.req.op = op

\* A step that leaves the position account and every balance as they were
NothingChanged == UNCHANGED <<trove_data, trove_lamports, lamports, deposit_data, deposit_lamports>>

\* The collateral check in exact arithmetic: collateral covers the fixed charge and
\* (collateral - GAS_FEE) / 10^9 * 70 / borrow >= 11 / 10 (any borrow of 0 meets it)
CollateralRatioMet(borrow, collateral) ==
    /\ ~Less(collateral, U64(GAS_FEE))
    /\ LET net == U64Sub(collateral, U64(GAS_FEE)).v
           lhs == MulW(MulW(Widen(net, W), SOL_PRICE), MIN_COLLATERAL_DEN)
           rhs == MulW(MulW(MulW(MulW(Widen(borrow, W), MIN_COLLATERAL_NUM),
                                 1000), 1000), 1000)
       IN  ~Less(lhs, rhs)

C2_LiquidateOnlyByPrivilegedSigner ==
    [][ (Runs("LiquidateTrove") /\ last'.req.key # SYSTEM_ACCOUNT_ADDRESS)
           => (last'.res # "Ok" /\ NothingChanged) ]_vars

(***************************************************************************)
(* C3                                                                      *)
(***************************************************************************)
\* C3 as stated: a CloseTrove of a created position signed by an identity other
\* than the record's owner fails, burns nothing and changes neither the record
\* nor any balance.
C3_CloseOnlyByOwner ==
    [][ (/\ Runs("CloseTrove")
         /\ trove.ok /\ trove.v.is_initialized
         /\ last'.req.key # trove.v.owner)
           => (last'.res # "Ok" /\ ~last'.burned /\ NothingChanged) ]_vars

C5_RatioHoldsAfterCreateAndWithdraw ==
    (last.req.op \in {"Borrow", "WithdrawCoin"} /\ last.res = "Ok")
        => (trove.ok /\ CollateralRatioMet(trove.v.borrow_amount, trove.v.lamports_amount))

(***************************************************************************)
(* C6                                                                      *)
(***************************************************************************)
\* C6 as stated: a WithdrawCoin by the owner of a created, not liquidated position
\* whose amount would bring the ratio below 1.10 (it exceeds the collateral, or
\* what it leaves fails the collateral check) fails with the collateral-ratio
\* error and leaves the stored record as it was.
C6_WithdrawBelowRatioRejected ==
    [][ (/\ Runs("WithdrawCoin")
         /\ trove.ok /\ trove.v.is_initialized /\ ~trove.v.is_liquidated
         /\ last'.req.is_signer /\ last'.req.key = trove.v.owner
         /\ \/ Less(trove.v.lamports_amount, last'.req.amount)
            \/ ~CollateralRatioMet(trove.v.borrow_amount,
                                   U64Sub(trove.v.lamports_amount, last'.req.amount).v))
           => (last'.res = "InvalidCollateral" /\ trove_data' = trove_data) ]_vars

C8_ReceivedIsMonotonic ==
    [][ (trove.ok /\ trove.v.is_received /\ trove'.ok) => trove'.v.is_received ]_vars

(***************************************************************************)
(* C9                                                                      *)
(***************************************************************************)
FrozenFields(t) ==
    <<t.owner, t.borrow_amount, t.team_fee, t.depositor_fee, t.amount_to_close>>

\* C9 (as amended): while a record is initialized no operation changes its owner,
\* borrow_amount, team_fee, depositor_fee or amount_to_close; Borrow on it always
\* fails and changes nothing, with the already-initialized error unless the
\* collateral check, the signer check or the balance check refuses it first; and
\* AddCoin, WithdrawCoin, RedeemCoin and ReceiveTrove leave the record loadable,
\* initialized and with these five fields as they were.
C9_InitializedFieldsFrozen ==
    [][ (last = Idle /\ trove.ok /\ trove.v.is_initialized)
           => /\ trove'.ok => /\ trove'.v.is_initialized
                              /\ FrozenFields(trove'.v) = FrozenFields(trove.v)
              /\ last'.req.op = "Borrow"
                   => /\ last'.res # "Ok"
                      /\ NothingChanged
                      /\ last'.res \in {"AccountAlreadyInitialized", "InvalidCollateral",
                                        "Panic", "MissingRequiredSignature",
                                        "NotRentExempt"}
                      /\ (/\ last'.req.is_signer
                          /\ last'.res \notin {"InvalidCollateral", "Panic",
                                               "NotRentExempt"})
                            => last'.res = "AccountAlreadyInitialized"
              /\ last'.req.op \in {"AddCoin", "WithdrawCoin", "RedeemCoin", "ReceiveTrove"}
                   => (trove'.ok /\ FrozenFields(trove'.v) = FrozenFields(trove.v)) ]_vars

\* C9 witness: a Borrow on an initialized record has just been refused with the
\* already-initialized error.
C9_Witness ==
    /\ last.req.op = "Borrow"
    /\ last.res = "AccountAlreadyInitialized"
    /\ trove.ok /\ trove.v.is_initialized

\* C9 as stated: Borrow on an already-initialized record fails with the
\* already-initialized error.
C9_AlwaysAlreadyInitializedError ==
    [][ (Runs("Borrow") /\ trove.ok /\ trove.v.is_initialized)
           => last'.res = "AccountAlreadyInitialized" ]_vars

(***************************************************************************)
(* C10                                                                     *)
(***************************************************************************)
\* floor(x * pct / 100) in exact arithmetic
PercentOf(x, pct) == SubSeq(DivBytes(MulW(Widen(x, W), pct), 100, W, 0), 1, 8)

\* C10 as stated: Borrow on an uninitialized record fails with the collateral-ratio
\* error when the collateral check fails; when the check passes (and the first
\* account signed and the account is rent exempt) it succeeds for every
\* borrow_amount and stores amount_to_close = borrow_amount - GAS_FEE,
\* depositor_fee = floor(amount_to_close * 4 / 100), team_fee =
\* floor(amount_to_close * 1 / 100), owner = the signer, received = false and
\* liquidated = false.
C10_CreateStoresDebtAndFees ==
    [][ (Runs("Borrow") /\ trove.ok /\ ~trove.v.is_initialized)
          => LET b == last'.req.borrow_amount
                 c == check_min_collateral_include_gas_fee(b, last'.req.lamports)
                 passes == c.v /\ ~c.overflow
                 debt == U64Sub(b, U64(GAS_FEE))
             IN  /\ ~passes => last'.res = "InvalidCollateral"
                 /\ (passes /\ last'.req.is_signer /\ rent_is_exempt(trove_lamports))
                      => /\ last'.res = "Ok"
                         /\ trove'.ok
                         /\ ~debt.overflow
                         /\ trove'.v.amount_to_close = debt.v
                         /\ trove'.v.depositor_fee = PercentOf(debt.v, DEPOSIT_FEE)
                         /\ trove'.v.team_fee = PercentOf(debt.v, TEAM_FEE)
                         /\ trove'.v.owner = last'.req.key
                         /\ trove'.v.is_initialized
                         /\ ~trove'.v.is_received
                         /\ ~trove'.v.is_liquidated ]_vars

(***************************************************************************)
(* Notions the pool properties share                                       *)
(***************************************************************************)
\* The record a load of the pool deposit account yields, before/after a step
deposit == Deposit_unpack_unchecked(deposit_data)

\* The three reward fields of a deposit record
Rewards(d) ==
    <<d.reward_token_amount, d.reward_governance_token_amount, d.reward_coin_amount>>

\* The operation of this step was signed by the privileged identity
SignedByPrivileged == last'.req.is_signer /\ last'.req.key = SYSTEM_ACCOUNT_ADDRESS

(***************************************************************************)
(* C11 (under SpecPool)                                                    *)
(***************************************************************************)
\* C11 (as amended): a WithdrawDeposit with amount greater than token_amount always
\* fails and changes nothing, with the insufficient-balance error whenever it is
\* signed by the privileged identity (otherwise with the missing-signature
\* error); signed by the privileged identity with amount <= token_amount it
\* succeeds; and every successful WithdrawDeposit has amount <= token_amount and
\* subtracts exactly amount, without wrapping, from token_amount and changes no
\* other field.
C11_WithdrawDepositNeverUnderflows ==
    [][ (Runs("WithdrawDeposit") /\ deposit.ok)
          => LET t == deposit.v.token_amount
                 a == last'.req.amount
             IN  /\ Less(t, a)
                      => /\ last'.res # "Ok"
                         /\ NothingChanged
                         /\ last'.res = IF SignedByPrivileged
                                        THEN "InsufficientLiquidity"
                                        ELSE "MissingRequiredSignature"
                 /\ (~Less(t, a) /\ SignedByPrivileged) => last'.res = "Ok"
                 /\ last'.res = "Ok"
                      => /\ ~Less(t, a)
                         /\ ~U64Sub(t, a).overflow
                         /\ deposit'.ok
                         /\ deposit'.v = [deposit.v EXCEPT !.token_amount = U64Sub(t, a).v]
                 /\ last'.res # "Ok" => NothingChanged ]_vars

\* C11 witness: a WithdrawDeposit of more than the token_amount of an initialized
\* deposit that holds tokens has just been refused with the insufficient-balance
\* error.
C11_Witness ==
    /\ last.req.op = "WithdrawDeposit"
    /\ last.res = "InsufficientLiquidity"
    /\ deposit.ok /\ deposit.v.is_initialized /\ ~IsZero(deposit.v.token_amount)
    /\ Less(deposit.v.token_amount, last.req.amount)

\* C11 as stated: a WithdrawDeposit with amount greater than token_amount fails
\* with the insufficient-balance error and leaves the record unchanged; with
\* amount <= token_amount a successful one subtracts exactly amount.
C11_WithdrawDepositInsufficientError ==
    [][ (Runs("WithdrawDeposit") /\ deposit.ok)
          => LET t == deposit.v.token_amount
                 a == last'.req.amount
             IN  /\ Less(t, a)
                      => (last'.res = "InsufficientLiquidity" /\ deposit_data' = deposit_data)
                 /\ (~Less(t, a) /\ last'.res = "Ok")
                      => (deposit'.ok /\ deposit'.v.token_amount = U64Sub(t, a).v) ]_vars

(***************************************************************************)
(* C12 (under SpecPool)                                                    *)
(***************************************************************************)
\* C12: a successful ClaimDepositReward sets reward_token_amount,
\* reward_governance_token_amount and reward_coin_amount all to 0 in the one step,
\* whatever they were, and leaves is_initialized, token_amount, bank,
\* governance_bank and owner as they were.
C12_ClaimResetsAllRewards ==
    [][ (Runs("ClaimDepositReward") /\ last'.res = "Ok")
          => /\ deposit.ok /\ deposit'.ok
             /\ Rewards(deposit'.v) = <<U64(0), U64(0), U64(0)>>
             /\ deposit'.v = [deposit.v EXCEPT !.reward_token_amount = U64(0),
                                               !.reward_governance_token_amount = U64(0),
                                               !.reward_coin_amount = U64(0)] ]_vars

\* C12 witness: a ClaimDepositReward has just succeeded on an initialized deposit
\* that holds tokens and whose three reward fields were all non-zero.
C12_Witness ==
    /\ last.req.op = "ClaimDepositReward"
    /\ last.res = "Ok"
    /\ LET b == Deposit_unpack_unchecked(last.before).v
       IN  /\ b.is_initialized /\ ~IsZero(b.token_amount)
           /\ \A i \in 1..3 : ~IsZero(Rewards(b)[i])
    /\ \A i \in 1..3 : IsZero(Rewards(deposit.v)[i])

(***************************************************************************)
(* C13 (under SpecPool)                                                    *)
(***************************************************************************)
\* C13 as stated: a reward field of a deposit is increased only by an operation
\* signed by the privileged identity, and a non-zero reward field of an
\* initialized deposit is reset to 0 only by an operation signed by the deposit's
\* owner.
C13_RewardsClearedOnlyByOwner ==
    [][ (deposit.ok /\ deposit'.ok)
          => /\ (\E i \in 1..3 : Less(Rewards(deposit.v)[i], Rewards(deposit'.v)[i]))
                   => SignedByPrivileged
             /\ (/\ deposit.v.is_initialized
                 /\ \E i \in 1..3 : /\ ~IsZero(Rewards(deposit.v)[i])
                                    /\ IsZero(Rewards(deposit'.v)[i]))
                   => (last'.req.is_signer /\ last'.req.key = deposit.v.owner) ]_vars

(***************************************************************************)
(* C14 (under SpecPool)                                                    *)
(***************************************************************************)
\* C14: the first successful AddDeposit (on an uninitialized record) stores the
\* named custodial accounts as bank and governance_bank and the signer as owner;
\* no operation on an initialized record changes bank, governance_bank or owner,
\* and no other operation on an uninitialized record sets them.
C14_CustodyAndOwnerFixedAtFirstDeposit ==
    [][ (last = Idle /\ last' # Idle /\ deposit.ok)
          => /\ deposit'.ok
             /\ IF last'.req.op = "AddDeposit" /\ last'.res = "Ok"
                   /\ ~deposit.v.is_initialized
                THEN /\ deposit'.v.is_initialized
                     /\ deposit'.v.bank = last'.req.bank
                     /\ deposit'.v.governance_bank = last'.req.governance_bank
                     /\ deposit'.v.owner = last'.req.key
                ELSE /\ deposit'.v.bank = deposit.v.bank
                     /\ deposit'.v.governance_bank = deposit.v.governance_bank
                     /\ deposit'.v.owner = deposit.v.owner ]_vars

\* C14 witness: an AddDeposit signed by an identity other than the owner and
\* naming other custodial accounts has just succeeded on an initialized deposit.
C14_Witness ==
    /\ last.req.op = "AddDeposit"
    /\ last.res = "Ok"
    /\ Deposit_unpack_unchecked(last.before).v.is_initialized
    /\ last.req.key # deposit.v.owner
    /\ last.req.bank # deposit.v.bank
    /\ last.req.governance_bank # deposit.v.governance_bank

(***************************************************************************)
(* Notions the properties of the whole dispatcher share                    *)
(***************************************************************************)
\* A step that executes some operation
RunsAny == last = Idle /\ last' # Idle

\* The operations the handlers restrict to the privileged identity
PrivilegedOps == {"ReceiveTrove", "WithdrawDeposit", "AddDepositReward", "ClaimDepositReward"}

\* The operations the handlers restrict to the owner of the position
OwnerOps == {"AddCoin", "WithdrawCoin"}

\* The operation of this step was signed by the owner of the position it addresses
SignedByOwner == last'.req.is_signer /\ trove.ok /\ last'.req.key = trove.v.owner

UnsignedBorrowResult(borrow_amount, lamports_) ==
    LET c == check_min_collateral_include_gas_fee(borrow_amount, lamports_)
    IN  IF Panics(c) THEN "Panic"
        ELSE IF ~c.v THEN "InvalidCollateral"
        ELSE "MissingRequiredSignature"

\* C16 (as amended): an operation whose first account did not sign fails with the
\* missing-signature error before the record is read, except Borrow, which runs
\* the collateral check on its arguments first; ReceiveTrove, WithdrawDeposit,
\* AddDepositReward and ClaimDepositReward signed by another identity than the
\* privileged one fail with the missing-signature error before the record is
\* read; AddCoin and WithdrawCoin signed by another identity than the owner fail
\* after the record is loaded, with the not-initialized error, else the
\* already-liquidated error, else the owner-only error.  Nothing changes in any
\* of these cases.
C16_AuthorizationFailures ==
    [][ RunsAny
          => /\ ~last'.req.is_signer
                   => /\ NothingChanged
                      /\ last'.res = IF last'.req.op = "Borrow"
                                     THEN UnsignedBorrowResult(last'.req.borrow_amount,
                                                               last'.req.lamports)
                                     ELSE "MissingRequiredSignature"
             /\ (/\ last'.req.is_signer
                 /\ last'.req.op \in PrivilegedOps
                 /\ last'.req.key # SYSTEM_ACCOUNT_ADDRESS)
                   => (NothingChanged /\ last'.res = "MissingRequiredSignature")
             /\ (/\ last'.req.is_signer
                 /\ last'.req.op \in OwnerOps
                 /\ trove.ok /\ last'.req.key # trove.v.owner)
                   => /\ NothingChanged
                      /\ last'.res = IF ~trove.v.is_initialized THEN "TroveIsNotInitialized"
                                     ELSE IF trove.v.is_liquidated
                                          THEN "TroveAlreadyLiquidated"
                                     ELSE "OnlyForTroveOwner" ]_vars

\* C16 witness: an AddCoin signed by another identity than the owner of a created
\* position has just been refused with the owner-only error.
C16_Witness ==
    /\ last.req.op = "AddCoin"
    /\ last.res = "OnlyForTroveOwner"
    /\ last.req.is_signer
    /\ trove.ok /\ trove.v.is_initialized /\ last.req.key # trove.v.owner

\* C16 as stated: an operation that has no signer, or is owner-authorized (AddCoin,
\* WithdrawCoin) and signed by another identity than the record's owner, or is
\* privileged (ReceiveTrove, WithdrawDeposit, AddDepositReward,
\* ClaimDepositReward) and signed by another identity than the privileged one,
\* fails with the missing-signature error whatever the record and the arguments.
C16_MissingSignatureTakesPrecedence ==
    [][ (/\ RunsAny
         /\ \/ ~last'.req.is_signer
            \/ /\ last'.req.op \in OwnerOps
               /\ trove.ok /\ trove.v.is_initialized
               /\ last'.req.key # trove.v.owner
            \/ /\ last'.req.op \in PrivilegedOps
               /\ last'.req.key # SYSTEM_ACCOUNT_ADDRESS)
           => last'.res = "MissingRequiredSignature" ]_vars

(***************************************************************************)
(* C17 (under SpecLedger)                                                  *)
(***************************************************************************)
\* C17: an AddDeposit or a CloseTrove whose burn the token program refuses fails,
\* and the deposit record, the position record and every balance are as they were
\* before the operation.
C17_FailedBurnChangesNothing ==
    [][ (/\ RunsAny
         /\ last'.req.op \in {"AddDeposit", "CloseTrove"}
         /\ ~last'.req.burn_ok)
           => (last'.res # "Ok" /\ ~last'.burned /\ NothingChanged) ]_vars

\* C17 witness: the burn of a top-up of an initialized deposit that holds tokens
\* has just been refused by the token program.
C17_Witness ==
    /\ last.req.op = "AddDeposit"
    /\ last.res = "BurnFailed"
    /\ deposit.ok /\ deposit.v.is_initialized /\ ~IsZero(deposit.v.token_amount)

(***************************************************************************)
(* C18 (under SpecWire)                                                    *)
(***************************************************************************)
\* The wire-format table of the interface: the operation of tag t and the
\* number of its u64 arguments, at index t + 1
WireFormat ==
    <<[op |-> "Borrow", n |-> 2], [op |-> "CloseTrove", n |-> 0],
      [op |-> "LiquidateTrove", n |-> 0], [op |-> "WithdrawCoin", n |-> 1],
      [op |-> "AddCoin", n |-> 1], [op |-> "RedeemCoin", n |-> 1],
      [op |-> "AddDeposit", n |-> 1], [op |-> "WithdrawDeposit", n |-> 1],
      [op |-> "ClaimDepositReward", n |-> 0], [op |-> "ReceiveTrove", n |-> 0],
      [op |-> "AddDepositReward", n |-> 3]>>

DecodeErrors == {"InvalidInstruction", "InstructionUnpackError"}

\* C18: a call of Processor::process with no bytes, with a tag outside 0..10 or
\* with fewer than 8 bytes per argument of its tag fails with a decode error, no
\* handler runs and no record or balance changes; any other call runs the
\* operation the wire-format table gives for its tag, on arguments that are the
\* consecutive 8-byte little-endian groups after the tag byte (bytes beyond the
\* last argument are not read).
C18_DecodeFollowsWireFormat ==
    [][ RunsAny =>
          LET data == last'.req.instruction_data
          IN  IF \/ data = <<>>
                 \/ data[1] \notin 0..10
                 \/ Len(data) - 1 < 8 * WireFormat[data[1] + 1].n
              THEN /\ last'.res \in DecodeErrors
                   /\ last'.req.op = "none"
                   /\ NothingChanged
                   /\ UNCHANGED <<moves, marked>>
              ELSE LET w    == WireFormat[data[1] + 1]
                       args == [i \in 1..w.n |-> SubSeq(data, 8 * i - 6, 8 * i + 1)]
                       o    == Handle(w.op, args, last'.req.key, last'.req.is_signer,
                                      last'.req.burn_ok)
                   IN  /\ last'.req.op = w.op
                       /\ last'.req.args = args
                       /\ last'.res = o.res
                       /\ w.op \in PoolOps => deposit_data' = o.data
                       /\ w.op \notin PoolOps => trove_data' = o.data ]_vars

\* C18 witness: the 26 bytes 10, 300, 4714286015, 3 (little-endian) and one byte
\* more have been decoded as AddDepositReward {coin: 300, governance:
\* 4714286015, token: 3} and the accrual has been added to an initialized deposit.
C18_Witness ==
    /\ last.req.op = "AddDepositReward"
    /\ Len(last.req.instruction_data) = 26
    /\ SubSeq(last.req.instruction_data, 1, 4) = <<10, 44, 1, 0>>
    /\ last.req.args = <<U64(300), Big(4, 714286015), U64(3)>>
    /\ last.res = "Ok"
    /\ deposit.ok /\ deposit.v.is_initialized
    /\ ~Less(deposit.v.reward_coin_amount, U64(300))

(***************************************************************************)
(* C19 (under SpecCodec)                                                   *)
(***************************************************************************)
\* The bytes [from..to) of a buffer, offsets counted from 0
At(buffer, from, to) == SubSeq(buffer, from + 1, to)

\* C19: a packed position record is 75 bytes with each field at its offset of
\* the persisted layout, a packed pool deposit record is 129 bytes likewise, and
\* unpacking the buffer yields the record that was packed, field by field.
C19_PackUnpackRoundTrip ==
    LET r == last.req.record
    IN  /\ last.req.op = "Trove::pack" =>
              /\ Len(trove_data) = 75
              /\ At(trove_data, 0, 1) = <<BoolByte(r.is_initialized)>>
              /\ At(trove_data, 1, 2) = <<BoolByte(r.is_received)>>
              /\ At(trove_data, 2, 3) = <<BoolByte(r.is_liquidated)>>
              /\ At(trove_data, 3, 11) = r.borrow_amount
              /\ At(trove_data, 11, 19) = r.lamports_amount
              /\ At(trove_data, 19, 27) = r.team_fee
              /\ At(trove_data, 27, 35) = r.depositor_fee
              /\ At(trove_data, 35, 43) = r.amount_to_close
              /\ At(trove_data, 43, 75) = r.owner
        /\ last.req.op = "Deposit::pack" =>
              /\ Len(deposit_data) = 129
              /\ At(deposit_data, 0, 1) = <<BoolByte(r.is_initialized)>>
              /\ At(deposit_data, 1, 9) = r.token_amount
              /\ At(deposit_data, 9, 17) = r.reward_token_amount
              /\ At(deposit_data, 17, 25) = r.reward_governance_token_amount
              /\ At(deposit_data, 25, 33) = r.reward_coin_amount
              /\ At(deposit_data, 33, 65) = r.bank
              /\ At(deposit_data, 65, 97) = r.governance_bank
              /\ At(deposit_data, 97, 129) = r.owner
        /\ last.req.op \in {"Trove::unpack", "Deposit::unpack"} =>
              /\ last.unpacked.ok
              /\ last.unpacked.v = r
              /\ \A field \in DOMAIN r : last.unpacked.v[field] = r[field]

\* C19 witness: a position record with initialized and liquidated set, received
\* clear, a debt of 300 (bytes 44, 1, 0, ...) and fees 258 and 65536 has been
\* packed and read back.
C19_Witness ==
    /\ last.req.op = "Trove::unpack"
    /\ last.req.record.is_initialized
    /\ ~last.req.record.is_received
    /\ last.req.record.is_liquidated
    /\ last.req.record.borrow_amount = U64(300)
    /\ last.req.record.team_fee = U64(258)
    /\ last.req.record.depositor_fee = U64(65536)
    /\ SubSeq(trove_data, 1, 6) = <<1, 0, 1, 44, 1, 0>>
    /\ last.unpacked.ok
    /\ last.unpacked.v.team_fee = U64(258)

(***************************************************************************)
(* C20                                                                     *)
(***************************************************************************)
\* C20 as stated: the collateral check rejects every collateral smaller than the
\* fixed charge of 200, so after every successful Borrow and every successful
\* WithdrawCoin the stored collateral is at least 200, and no Borrow offered less
\* than 200 of collateral succeeds.
C20_CollateralBelowChargeRejected ==
    /\ (last.req.op \in {"Borrow", "WithdrawCoin"} /\ last.res = "Ok")
          => (trove.ok /\ ~Less(trove.v.lamports_amount, U64(GAS_FEE)))
    /\ (last.req.op = "Borrow" /\ Less(last.req.lamports, U64(GAS_FEE)))
          => last.res # "Ok"

(***************************************************************************)
(* C21 (under SpecPool)                                                    *)
(***************************************************************************)
\* C21 as stated: an AddDepositReward signed by the privileged identity either
\* adds coin, governance and token to reward_coin_amount,
\* reward_governance_token_amount and reward_token_amount and leaves the other
\* fields as they were, or, when one of the three sums exceeds the u64 maximum,
\* fails with the overflow error and leaves the record as it was.
C21_AccrueAddsOrFailsWithOverflow ==
    [][ (Runs("AddDepositReward") /\ SignedByPrivileged /\ deposit.ok)
          => LET c == U64Add(deposit.v.reward_coin_amount, last'.req.coin)
                 g == U64Add(deposit.v.reward_governance_token_amount,
                             last'.req.governance)
                 t == U64Add(deposit.v.reward_token_amount, last'.req.token)
             IN  IF c.overflow \/ g.overflow \/ t.overflow
                 THEN last'.res = "AmountOverflow" /\ deposit_data' = deposit_data
                 ELSE /\ last'.res = "Ok"
                      /\ deposit'.ok
                      /\ deposit'.v = [deposit.v EXCEPT
                                          !.reward_coin_amount = c.v,
                                          !.reward_governance_token_amount = g.v,
                                          !.reward_token_amount = t.v] ]_vars

(***************************************************************************)
(* C22                                                                     *)
(***************************************************************************)
\* C22 as stated: AddCoin, WithdrawCoin, RedeemCoin, ReceiveTrove, LiquidateTrove
\* and CloseTrove applied to a position record that is not initialized (never
\* created, or erased) fail and change neither the record nor any balance.
C22_UninitializedLeftOnlyByCreate ==
    [][ (/\ RunsAny
         /\ last'.req.op \in {"AddCoin", "WithdrawCoin", "RedeemCoin", "ReceiveTrove",
                              "LiquidateTrove", "CloseTrove"}
         /\ ~(trove.ok /\ trove.v.is_initialized))
          => (last'.res # "Ok" /\ NothingChanged) ]_vars

(***************************************************************************)
(* C23                                                                     *)
(***************************************************************************)
\* C23 as stated: whenever a Borrow, AddCoin, WithdrawCoin or RedeemCoin has just
\* succeeded and left an initialized, not liquidated position, the stored
\* borrow_amount and collateral meet the minimum collateral ratio of 1.10.
C23_RatioHoldsAfterEveryCollateralChange ==
    (/\ last.req.op \in {"Borrow", "AddCoin", "WithdrawCoin", "RedeemCoin"}
     /\ last.res = "Ok"
     /\ trove.ok /\ trove.v.is_initialized /\ ~trove.v.is_liquidated)
        => CollateralRatioMet(trove.v.borrow_amount, trove.v.lamports_amount)

(***************************************************************************)
(* C24 (under SpecLedger)                                                  *)
(***************************************************************************)
\* C24 as stated: a CloseTrove or an AddDeposit whose burn the token program has
\* carried out does not fail: no operation ends with the burn done and a result
\* other than Ok.
C24_NoFailureAfterBurn ==
    (last.req.op \in {"CloseTrove", "AddDeposit"} /\ last.burned) => last.res = "Ok"

(***************************************************************************)
(* C25                                                                     *)
(***************************************************************************)
\* C25 as stated: a successful RedeemCoin subtracts exactly amount from
\* lamports_amount and changes no other field, and a RedeemCoin or WithdrawCoin
\* whose amount exceeds the stored lamports_amount fails and leaves the record as
\* it was.
C25_RedeemSubtractsAndNeverWraps ==
    [][ /\ (Runs("RedeemCoin") /\ last'.res = "Ok")
              => /\ trove.ok /\ trove'.ok
                 /\ ~Less(trove.v.lamports_amount, last'.req.amount)
                 /\ trove'.v = [trove.v EXCEPT !.lamports_amount =
                                   U64Sub(trove.v.lamports_amount, last'.req.amount).v]
        /\ (/\ RunsAny
            /\ last'.req.op \in {"RedeemCoin", "WithdrawCoin"}
            /\ trove.ok
            /\ Less(trove.v.lamports_amount, last'.req.amount))
              => (last'.res # "Ok" /\ trove_data' = trove_data) ]_vars

(***************************************************************************)
(* C26                                                                     *)
(***************************************************************************)
\* C26: starting from an all-zero position record, no state is reached in which
\* the position account holds a record with is_liquidated = true, and no
\* operation returns the already-liquidated error.
C26_LiquidatedNeverSet ==
    /\ trove.ok => ~trove.v.is_liquidated
    /\ last.res # "TroveAlreadyLiquidated"

\* C26 witness: a LiquidateTrove has just succeeded on a record that ReceiveTrove
\* had marked: the account's buffer is the empty slice, not a record with the
\* flag set.
C26_Witness ==
    /\ last.req.op = "LiquidateTrove"
    /\ last.res = "Ok"
    /\ marked
    /\ trove_data = <<>>
    /\ ~trove.ok

(***************************************************************************)
(* C27                                                                     *)
(***************************************************************************)
RECURSIVE SumBytes(_, _, _)
\* The sum of the u64 values xs[1], ..., xs[4] plus the carry c, from byte i up:
\* 8 bytes and the carry out of the last as a ninth
SumBytes(xs, i, c) ==
    IF i > 8 THEN <<c>>
    ELSE LET s == xs[1][i] + xs[2][i] + xs[3][i] + xs[4][i] + c
         IN  <<s % 256>> \o SumBytes(xs, i + 1, s \div 256)

\* The sum of the balances of the position account and of every identity's own
\* account, beyond 64 bits
TotalLamports ==
    SumBytes(<<trove_lamports, lamports[SYSTEM_ACCOUNT_ADDRESS], lamports[Alice],
               lamports[Bob]>>, 1, 0)

C28_TokenAmountIsNetDeposits ==
    [][ (RunsAny /\ deposit.ok)
          => LET t    == deposit.v.token_amount
                 done == last'.res = "Ok"
             IN  /\ deposit'.ok
                 /\ deposit.v.is_initialized => deposit'.v.is_initialized
                 /\ IF last'.req.op = "AddDeposit" /\ done /\ ~deposit.v.is_initialized
                    THEN /\ deposit'.v.token_amount = last'.req.amount
                         /\ Rewards(deposit'.v) = <<U64(0), U64(0), U64(0)>>
                    ELSE IF last'.req.op = "AddDeposit" /\ done
                    THEN /\ ~U64Add(t, last'.req.amount).overflow
                         /\ deposit'.v.token_amount = U64Add(t, last'.req.amount).v
                    ELSE IF last'.req.op = "WithdrawDeposit" /\ done
                    THEN /\ ~Less(t, last'.req.amount)
                         /\ deposit'.v.token_amount = U64Sub(t, last'.req.amount).v
                    ELSE deposit'.v.token_amount = t ]_vars

=============================================================================
